---- MODULE Spec2Model ----
(***************************************************************************)
(* PolyMap (src/src/lib.rs): a map from keys to values of varying types,   *)
(* stored in one byte buffer `data`, with a key index `field_map`          *)
(* (key -> offset) and a field table `fields` sorted by offset.            *)
(*                                                                         *)
(* Offsets and Vec indices are 0-based as in the source; TLA+ sequences    *)
(* are 1-based, so byte offset o is data[o + 1] and fields[i] of the       *)
(* source is fields[i + 1] here.                                           *)
(***************************************************************************)
EXTENDS Integers, Sequences, FiniteSets, TLC

\* ---------------------------------------------------------------- bounds
\* The data buffer is not grown beyond this many bytes (a new key whose region
\* would end later is not inserted).
MaxData == 8
\* The same for the specification with Dropper values (SpecDrop).
MaxDropData == 16
\* Dropper values are numbered 1, 2, ... as they are stored; at most this many.
MaxDroppers == 3
\* reserve_data / reserve_data_exact / reserve_fields / reserve_fields_exact
\* are called only while the capacity they ask for is at most this.
MaxCapacity == 12

\* ---------------------------------------------------------------- keys
\* K is generic; the keys are the tests' "a", "b", "c" (and "d" where four
\* values are packed).
Keys == {"a", "b", "c"}
PackKeys == {"a", "b", "c", "d"}
CapKeys == {"a", "b"}

\* ---------------------------------------------------------------- types
\* The value types T the generic methods are instantiated with: the ones the
\* tests use.  "A" is the zero-sized struct A, "Dropper" is
\* struct Dropper { n: usize } with a Drop impl.
AllTypes == {"u8", "u16", "u32", "i32", "A", "Dropper"}

\* TypeId::of::<T>(): an identity token compared by equality.
TypeId(t) == t

size_of(t) ==
    CASE t = "u8" -> 1
      [] t = "u16" -> 2
      [] t = "u32" -> 4
      [] t = "i32" -> 4
      [] t = "A" -> 0
      [] t = "Dropper" -> 8

align_of(t) ==
    CASE t = "u8" -> 1
      [] t = "u16" -> 2
      [] t = "u32" -> 4
      [] t = "i32" -> 4
      [] t = "A" -> 1
      [] t = "Dropper" -> 8

needs_drop(t) == t = "Dropper"

\* A value of type T in memory: size_of(T) bytes, little-endian.
RECURSIVE ToBytes(_, _)
ToBytes(v, n) == IF n = 0 THEN <<>> ELSE <<v % 256>> \o ToBytes(v \div 256, n - 1)

RECURSIVE FromBytes(_)
FromBytes(bs) == IF bs = <<>> THEN 0 ELSE bs[1] + 256 * FromBytes(Tail(bs))

\* ---------------------------------------------------------------- state
VARIABLES
    data,       \* Vec<u8>: the value data store (data.len() = Len(data))
    field_map,  \* HashMap<K, usize>: key -> field offset
    fields,     \* Vec<Field>: inserted fields, sorted by offset
    data_capacity,    \* data.capacity()
    fields_capacity,  \* fields.capacity()
    alive,      \* FALSE once the map has been dropped
    ref,        \* history: the key -> (type, value) map the caller has built
    made,       \* history: number of Dropper values stored so far
    cleanups,   \* history: Dropper value -> number of drop_ptr calls on it
    handed,     \* history: Dropper values handed back to the caller
    vacated     \* history: the region the last call freed, if it was a remove

vars == <<data, field_map, fields, data_capacity, fields_capacity,
          alive, ref, made, cleanups, handed, vacated>>

mapvars == <<data, field_map, fields>>
capvars == <<data_capacity, fields_capacity>>
ghostvars == <<ref, made, cleanups, handed>>

\* ---------------------------------------------------------------- results
None == [tag |-> "None", val |-> 0]
Some(v) == [tag |-> "Some", val |-> v]
Bool(b) == [tag |-> IF b THEN "true" ELSE "false", val |-> 0]
\* panic!("... of a different type") at lines 185, 249, 354
PanicMismatch == [tag |-> "PanicMismatch", val |-> 0]
\* Result::unwrap() on Err at lines 245, 335
PanicUnwrap == [tag |-> "PanicUnwrap", val |-> 0]

IsPanic(r) == r.tag \in {"PanicMismatch", "PanicUnwrap"}

\* ---------------------------------------------------------------- helpers
\* (mutant) no rounding up
align_none(offset, alignment) == offset

align(offset, alignment) ==
    IF offset % alignment = 0
        THEN offset
        ELSE offset + (alignment - (offset % alignment))

Field(offset, size, id, drop) ==
    [offset |-> offset, size |-> size, id |-> id, drop |-> drop]

NoField == Field(0, 0, "", "None")

\* slice::binary_search_by(|f| f.offset.cmp(off)) over [lo, hi)
RECURSIVE bsearch(_, _, _, _)
bsearch(fs, off, lo, hi) ==
    IF lo >= hi
        THEN [tag |-> "Err", pos |-> lo]
        ELSE LET mid == lo + (hi - lo) \div 2
             IN  IF fs[mid + 1].offset = off
                     THEN [tag |-> "Ok", pos |-> mid]
                     ELSE IF fs[mid + 1].offset < off
                              THEN bsearch(fs, off, mid + 1, hi)
                              ELSE bsearch(fs, off, lo, mid)

binary_search_by(fs, off) == bsearch(fs, off, 0, Len(fs))

\* get_data / get_data_mut at `offset` dereferenced as a T
ReadAt(d, offset, t) ==
    FromBytes(SubSeq(d, offset + 1, offset + size_of(t)))

\* ptr::write / ptr::replace of a T through get_data_mut(offset)
WriteAt(d, offset, t, v) ==
    LET bs == ToBytes(v, size_of(t))
    IN  [i \in 1..Len(d) |->
            IF i > offset /\ i <= offset + size_of(t) THEN bs[i - offset] ELSE d[i]]

Max(a, b) == IF a >= b THEN a ELSE b

\* Vec<T> growing to hold `required` elements: the capacity is doubled, and
\* is at least `required` and at least the smallest capacity a Vec of that
\* element size allocates (8 for u8, 4 for Field).
amortized(cap, required, min_non_zero_cap) ==
    Max(Max(cap * 2, required), min_non_zero_cap)

\* Vec::reserve(additional) on a Vec of length n
reserve(cap, n, additional, min_non_zero_cap) ==
    IF cap - n >= additional
        THEN cap
        ELSE amortized(cap, n + additional, min_non_zero_cap)

\* Vec::reserve_exact(additional) on a Vec of length n
reserve_exact(cap, n, additional) ==
    IF cap - n >= additional THEN cap ELSE n + additional

\* Vec::resize(n, 0u8), called only to grow
Resize(d, n) == d \o [i \in 1..(n - Len(d)) |-> 0]

\* Vec::insert(index, e)
VecInsert(s, index, e) == SubSeq(s, 1, index) \o <<e>> \o SubSeq(s, index + 1, Len(s))

\* (mutant) Vec::remove of the element after the one asked for
VecRemoveNext(s, pos) == SubSeq(s, 1, pos + 1) \o SubSeq(s, pos + 3, Len(s))

\* Vec::remove(pos)
VecRemove(s, pos) == SubSeq(s, 1, pos) \o SubSeq(s, pos + 2, Len(s))

\* (mutant) the index entry is left behind
MapRemoveKept(m, k) == m

\* HashMap::remove(k)
MapRemove(m, k) == [x \in DOMAIN m \ {k} |-> m[x]]

\* HashMap::insert(k, v)
MapInsert(m, k, v) == [x \in DOMAIN m \cup {k} |-> IF x = k THEN v ELSE m[x]]

EmptyMap == [x \in {} |-> 0]

\* ---------------------------------------------------------------- lookups
\* get_offset: field_map.get(k)
get_offset(k) ==
    IF k \in DOMAIN field_map THEN Some(field_map[k]) ELSE None

\* get_field: the field at the key's offset; the unwrap panics when the
\* binary search fails.
get_field(k) ==
    IF k \notin DOMAIN field_map
        THEN [tag |-> "None", field |-> NoField]
        ELSE LET r == binary_search_by(fields, field_map[k])
             IN  IF r.tag = "Ok"
                     THEN [tag |-> "Some", field |-> fields[r.pos + 1]]
                     ELSE [tag |-> "PanicUnwrap", field |-> NoField]

\* get_field_with_id: as get_field, panicking on a different TypeId
get_field_with_id(k, id) ==
    LET r == get_field(k)
    IN  IF r.tag = "Some" /\ r.field.id # id
            THEN [tag |-> "PanicMismatch", field |-> NoField]
            ELSE r

\* ---------------------------------------------------------------- observers
len == Len(fields)

data_size == Len(data)

contains_key(k) == k \in DOMAIN field_map

\* contains_key_of: get_field(k).map(|f| f.id == id) == Some(true)
contains_key_of_ret(k, t) ==
    LET r == get_field(k)
    IN  IF r.tag = "PanicUnwrap" THEN PanicUnwrap
        ELSE Bool(r.tag = "Some" /\ r.field.id = TypeId(t))

\* get / get_mut: the value behind the returned reference
get_ret(k, t) ==
    LET r == get_field_with_id(k, TypeId(t))
    IN  CASE r.tag = "Some" -> Some(ReadAt(data, r.field.offset, t))
          [] r.tag = "None" -> None
          [] r.tag = "PanicUnwrap" -> PanicUnwrap
          [] r.tag = "PanicMismatch" -> PanicMismatch

\* ---------------------------------------------------------------- allocate
\* (mutant) a zero-sized T is given no byte
alloc_size_raw(t) == size_of(t)

\* (size, alignment) of the region of a T: a zero-sized T gets (1, 1)
alloc_size(t) == IF size_of(t) = 0 THEN 1 ELSE size_of(t)

\* (mutant) every region is byte-aligned
alloc_alignment_one(t) == 1

alloc_alignment(t) == IF size_of(t) = 0 THEN 1 ELSE align_of(t)

\* The loop over adjacent pairs (a, b) = (fields[i], fields[i + 1]): the
\* first gap in which the aligned region fits, with its insertion index.
RECURSIVE scan(_, _, _, _)
scan(fs, size, alignment, i) ==
    IF i + 2 > Len(fs)
        THEN [tag |-> "None", offset |-> 0, index |-> 0]
        ELSE LET a == fs[i + 1]
                 b == fs[i + 2]
                 off == align(a.offset + a.size, alignment)
             IN  IF off + size <= b.offset
                     THEN [tag |-> "Some", offset |-> off, index |-> i + 1]
                     ELSE scan(fs, size, alignment, i + 1)

\* (mutant) the scan for a gap is skipped: a new field always goes after the
\* last one
place_append(fs, size, alignment) ==
    IF fs = <<>>
        THEN [offset |-> 0, index |-> 0]
        ELSE [offset |-> align(fs[Len(fs)].offset + fs[Len(fs)].size, alignment),
              index |-> Len(fs)]

\* (mutant) the room before the first field is never looked at
place_skip_front(fs, size, alignment) ==
    IF fs = <<>>
        THEN [offset |-> 0, index |-> 0]
        ELSE LET res == scan(fs, size, alignment, 0)
                 last == fs[Len(fs)]
             IN  IF res.tag = "Some"
                     THEN [offset |-> res.offset, index |-> res.index]
                     ELSE [offset |-> align(last.offset + last.size, alignment),
                           index |-> Len(fs)]

\* (mutant) offset 0 is taken whenever the first field does not start at 0,
\* whether or not the region fits before it
place_unchecked_front(fs, size, alignment) ==
    IF fs = <<>> \/ 0 < fs[1].offset
        THEN [offset |-> 0, index |-> 0]
        ELSE LET res == scan(fs, size, alignment, 0)
                 last == fs[Len(fs)]
             IN  IF res.tag = "Some"
                     THEN [offset |-> res.offset, index |-> res.index]
                     ELSE [offset |-> align(last.offset + last.size, alignment),
                           index |-> Len(fs)]

\* let (offset, index) = ...
place(fs, size, alignment) ==
    IF fs = <<>> \/ size <= fs[1].offset
        THEN [offset |-> 0, index |-> 0]
        ELSE LET res == scan(fs, size, alignment, 0)
                 last == fs[Len(fs)]
             IN  IF res.tag = "Some"
                     THEN [offset |-> res.offset, index |-> res.index]
                     ELSE [offset |-> align(last.offset + last.size, alignment),
                           index |-> Len(fs)]

\* (mutant) the buffer is grown one byte further than the region's end
grow_over(d, end) == IF Len(d) < end THEN Resize(d, end + 1) ELSE d

\* if self.data.len() < offset + size { self.data.resize(offset + size, 0u8) }
grow(d, end) == IF Len(d) < end THEN Resize(d, end) ELSE d

\* data.capacity() after that resize
grow_capacity(cap, d, end) ==
    IF Len(d) < end THEN reserve(cap, Len(d), end - Len(d), 8) ELSE cap

\* the Field pushed for a T at `offset`
new_field(offset, t) ==
    Field(offset, alloc_size(t), TypeId(t), IF needs_drop(t) THEN t ELSE "None")

\* (mutant) the new field is pushed at the end of the table
fields_push(fs, p, t) == Append(fs, new_field(p.offset, t))

\* self.fields.insert(index, Field{..})
fields_insert(fs, p, t) == VecInsert(fs, p.index, new_field(p.offset, t))

\* fields.capacity() after that insert
fields_insert_capacity(cap, fs) ==
    IF Len(fs) = cap THEN reserve(cap, Len(fs), 1, 4) ELSE cap

\* ---------------------------------------------------------------- history
\* The caller's view (a reference key -> value map) and the fate of every
\* Dropper value; these follow what the calls returned, not the map's state.
Entry(t, v) == [ty |-> t, val |-> v]

Stored(k, t, v) ==
    /\ ref' = MapInsert(ref, k, Entry(t, v))
    /\ IF needs_drop(t)
           THEN /\ made' = made + 1
                /\ cleanups' = MapInsert(cleanups, v, 0)
           ELSE UNCHANGED <<made, cleanups>>

HandedBack(t, v) == IF needs_drop(t) THEN handed \cup {v} ELSE handed

Bump(c, v) == IF v \in DOMAIN c THEN [c EXCEPT ![v] = @ + 1] ELSE MapInsert(c, v, 1)

\* ---------------------------------------------------------------- actions
\* A call that panics, or finds nothing to do, leaves the map as it was.
Unchanged == UNCHANGED <<mapvars, capvars, ghostvars>>

NoRegion == [tag |-> "None", ty |-> "", offset |-> 0]
Region(t, offset) == [tag |-> "Some", ty |-> t, offset |-> offset]

\* insert: what the call returns (the previous value, None, or a panic)
insert_ret(k, t) ==
    LET r == get_field(k)
    IN  CASE r.tag = "PanicUnwrap" -> PanicUnwrap
          [] r.tag = "None" -> None
          [] r.tag = "Some" /\ r.field.id # TypeId(t) -> PanicMismatch
          [] r.tag = "Some" /\ r.field.id = TypeId(t) ->
                 Some(ReadAt(data, r.field.offset, t))

\* insert, key present: ptr::replace(self.get_data_mut(offset), t)
InsertReplace(k, t, v) ==
    /\ data' = WriteAt(data, get_field(k).field.offset, t, v)
    /\ UNCHANGED <<field_map, fields, capvars>>
    /\ Stored(k, t, v)
    /\ handed' = HandedBack(t, insert_ret(k, t).val)

\* insert, key absent: allocate::<T>(k), then ptr::write
InsertNew(k, t, v) ==
    LET p == place(fields, alloc_size(t), alloc_alignment(t))
    IN  /\ data' = WriteAt(grow(data, p.offset + alloc_size(t)), p.offset, t, v)
        /\ field_map' = MapInsert(field_map, k, p.offset)
        /\ fields' = fields_insert(fields, p, t)
        /\ data_capacity' = grow_capacity(data_capacity, data, p.offset + alloc_size(t))
        /\ fields_capacity' = fields_insert_capacity(fields_capacity, fields)
        /\ Stored(k, t, v)
        /\ UNCHANGED handed

\* pub fn insert<T>(&mut self, k: K, t: T) -> Option<T>
Insert(k, t, v) ==
    /\ alive
    /\ UNCHANGED alive
    /\ vacated' = NoRegion
    /\ LET r == insert_ret(k, t)
       IN  CASE IsPanic(r) -> Unchanged
             [] r.tag = "Some" -> InsertReplace(k, t, v)
             [] r.tag = "None" -> InsertNew(k, t, v)

\* the position remove() computes:
\* get_offset(k).map(|offset| binary_search_by(..).unwrap())
remove_pos(k) ==
    LET o == get_offset(k)
    IN  IF o.tag = "None" THEN [tag |-> "None", pos |-> 0]
        ELSE LET r == binary_search_by(fields, o.val)
             IN  IF r.tag = "Ok" THEN [tag |-> "Some", pos |-> r.pos]
                 ELSE [tag |-> "PanicUnwrap", pos |-> 0]

\* remove: what the call returns
remove_ret(k, t) ==
    LET r == remove_pos(k)
    IN  CASE r.tag = "PanicUnwrap" -> PanicUnwrap
          [] r.tag = "None" -> None
          [] r.tag = "Some" /\ fields[r.pos + 1].id # TypeId(t) -> PanicMismatch
          [] r.tag = "Some" /\ fields[r.pos + 1].id = TypeId(t) ->
                 Some(ReadAt(data, fields[r.pos + 1].offset, t))

\* (mutant) the index entry is removed before the type is checked
RemoveBeforeCheck(k, t) ==
    /\ alive
    /\ UNCHANGED alive
    /\ LET r == remove_ret(k, t)
       IN  CASE r.tag = "Some" ->
                    /\ vacated' = Region(t, field_map[k])
                    /\ field_map' = MapRemove(field_map, k)
                    /\ fields' = VecRemove(fields, remove_pos(k).pos)
                    /\ UNCHANGED <<data, capvars>>
                    /\ ref' = MapRemove(ref, k)
                    /\ handed' = HandedBack(t, r.val)
                    /\ UNCHANGED <<made, cleanups>>
             [] r.tag = "PanicMismatch" ->
                    /\ vacated' = NoRegion
                    /\ field_map' = MapRemove(field_map, k)
                    /\ UNCHANGED <<data, fields, capvars, ghostvars>>
             [] OTHER -> vacated' = NoRegion /\ Unchanged

\* pub fn remove<T>(&mut self, k: &Q) -> Option<T>
Remove(k, t) ==
    /\ alive
    /\ UNCHANGED alive
    /\ LET r == remove_ret(k, t)
       IN  IF r.tag = "Some"
               THEN /\ vacated' = Region(t, field_map[k])
                    /\ field_map' = MapRemove(field_map, k)
                    /\ fields' = VecRemove(fields, remove_pos(k).pos)
                    /\ UNCHANGED <<data, capvars>>
                    /\ ref' = MapRemove(ref, k)
                    /\ handed' = HandedBack(t, r.val)
                    /\ UNCHANGED <<made, cleanups>>
               ELSE vacated' = NoRegion /\ Unchanged

\* pub fn get<T>(&self, k: &Q) -> Option<&T>: returns get_ret(k, t)
Get(k, t) ==
    /\ alive
    /\ get_ret(k, t).tag \in {"None", "Some", "PanicMismatch", "PanicUnwrap"}
    /\ UNCHANGED vars

\* pub fn get_mut<T>(&mut self, k: &Q) -> Option<&mut T>: returns get_ret(k, t)
GetMut(k, t) ==
    /\ alive
    /\ get_ret(k, t).tag \in {"None", "Some", "PanicMismatch", "PanicUnwrap"}
    /\ UNCHANGED vars

\* pub fn contains_key(&self, k: &Q) -> bool: returns contains_key(k)
ContainsKey(k) ==
    /\ alive
    /\ contains_key(k) \in BOOLEAN
    /\ UNCHANGED vars

\* pub fn contains_key_of<T>(&self, k: &Q) -> bool: returns contains_key_of_ret(k, t)
ContainsKeyOf(k, t) ==
    /\ alive
    /\ contains_key_of_ret(k, t).tag \in {"true", "false", "PanicUnwrap"}
    /\ UNCHANGED vars

\* pub fn keys(&self) -> Keys<K>: the keys the iterator yields, each once
\* (field_map.keys())
keys == DOMAIN field_map

\* pub fn keys(&self): returns an iterator over `keys`
CallKeys ==
    /\ alive
    /\ keys \subseteq DOMAIN field_map
    /\ UNCHANGED vars

\* pub fn len(&self) -> usize: returns len
CallLen ==
    /\ alive
    /\ len \in Nat
    /\ UNCHANGED vars

\* pub fn data_size(&self) -> usize: returns data_size
CallDataSize ==
    /\ alive
    /\ data_size \in Nat
    /\ UNCHANGED vars

\* the end offset of the last (highest-offset) field, 0 for an empty table
fields_end(fs) == IF fs = <<>> THEN 0 ELSE fs[Len(fs)].offset + fs[Len(fs)].size

\* (mutant) the buffer is cut down to the end of the last field
ShrinkDataCondensed ==
    /\ alive
    /\ data' = SubSeq(data, 1, fields_end(fields))
    /\ data_capacity' = fields_end(fields)
    /\ vacated' = NoRegion
    /\ UNCHANGED <<field_map, fields, fields_capacity, alive, ghostvars>>

\* pub fn shrink_data_to_fit(&mut self): data.shrink_to_fit() gives up the
\* capacity beyond data.len(); the bytes and the length stay
ShrinkDataToFit ==
    /\ alive
    /\ data' = data
    /\ data_capacity' = Len(data)
    /\ vacated' = NoRegion
    /\ UNCHANGED <<field_map, fields, fields_capacity, alive, ghostvars>>

\* pub fn reserve_data(&mut self, additional: usize)
ReserveData(additional) ==
    /\ alive
    /\ data_capacity' = reserve(data_capacity, Len(data), additional, 8)
    /\ vacated' = NoRegion
    /\ UNCHANGED <<mapvars, fields_capacity, alive, ghostvars>>

\* pub fn reserve_data_exact(&mut self, n: usize)
ReserveDataExact(n) ==
    /\ alive
    /\ data_capacity' = reserve_exact(data_capacity, Len(data), n)
    /\ vacated' = NoRegion
    /\ UNCHANGED <<mapvars, fields_capacity, alive, ghostvars>>

\* pub fn reserve_fields(&mut self, additional: usize)
ReserveFields(additional) ==
    /\ alive
    /\ fields_capacity' = reserve(fields_capacity, Len(fields), additional, 4)
    /\ vacated' = NoRegion
    /\ UNCHANGED <<mapvars, data_capacity, alive, ghostvars>>

\* pub fn reserve_fields_exact(&mut self, n: usize)
ReserveFieldsExact(n) ==
    /\ alive
    /\ fields_capacity' = reserve_exact(fields_capacity, Len(fields), n)
    /\ vacated' = NoRegion
    /\ UNCHANGED <<mapvars, data_capacity, alive, ghostvars>>

\* The clear() loop: fields are popped from the back, and the dropper of each
\* field that has one is called on the value at its offset.
RECURSIVE clear_drops(_, _, _)
clear_drops(fs, d, c) ==
    IF fs = <<>>
        THEN c
        ELSE LET f == fs[Len(fs)]
             IN  clear_drops(SubSeq(fs, 1, Len(fs) - 1), d,
                             IF f.drop # "None" THEN Bump(c, ReadAt(d, f.offset, f.drop))
                                                ELSE c)

\* (mutant) the loop visits the fields without popping them
clear_fields_kept(fs) == fs

\* what the clear() loop leaves in self.fields
clear_fields(fs) == <<>>

\* what clear() leaves in self.field_map: it is not touched
clear_field_map(m) == m

\* pub fn clear(&mut self)
Clear ==
    /\ alive
    /\ cleanups' = clear_drops(fields, data, cleanups)
    /\ fields' = clear_fields(fields)
    /\ field_map' = clear_field_map(field_map)
    /\ ref' = EmptyMap
    /\ vacated' = NoRegion
    /\ UNCHANGED <<alive, data, capvars, made, handed>>

\* impl Drop for PolyMap: self.clear(), after which the map is gone
DropMap ==
    /\ alive
    /\ cleanups' = clear_drops(fields, data, cleanups)
    /\ fields' = clear_fields(fields)
    /\ field_map' = clear_field_map(field_map)
    /\ ref' = EmptyMap
    /\ alive' = FALSE
    /\ vacated' = NoRegion
    /\ UNCHANGED <<data, capvars, made, handed>>

\* ---------------------------------------------------------------- inputs
\* Values the calls are made with (0x01, 0x02, 0x0101, 0x01010101: no byte of
\* a value is the zero the buffer is filled with); a Dropper carries the
\* number of Dropper values stored before it, plus one.
Vals(t) ==
    CASE t = "u8" -> {1, 2}
      [] t = "u16" -> {257}
      [] t = "u32" -> {16843009}
      [] t = "i32" -> {1}
      [] t = "A" -> {0}
      [] t = "Dropper" -> IF made < MaxDroppers THEN {made + 1} ELSE {}

\* One value of each type, where the calls need not tell values apart.
OneVal(t) ==
    CASE t = "u8" -> {1}
      [] t = "u16" -> {257}
      [] t = "u32" -> {16843009}
      [] t = "i32" -> {1}
      [] t = "A" -> {0}
      [] t = "Dropper" -> IF made < MaxDroppers THEN {made + 1} ELSE {}

Types == {"u8", "u16", "u32"}
NoClearTypes == {"u8", "u16"}
PackTypes == {"u8", "u16", "u32", "A"}
DropTypes == {"Dropper", "A"}
CapTypes == {"u8", "u16"}

\* The `additional` / `n` the reserve_* methods are called with.
Additional == {1, 3}

\* PolyMap::new()
Init ==
    /\ data = <<>>
    /\ field_map = EmptyMap
    /\ fields = <<>>
    /\ data_capacity = 0
    /\ fields_capacity = 0
    /\ alive = TRUE
    /\ ref = EmptyMap
    /\ made = 0
    /\ cleanups = EmptyMap
    /\ handed = {}
    /\ vacated = NoRegion

\* The inserts the specifications make: those that keep the buffer within
\* `max` bytes.
Fits(k, t, max) ==
    \/ insert_ret(k, t).tag # "None"
    \/ place(fields, alloc_size(t), alloc_alignment(t)).offset + alloc_size(t) <= max

\* Every operation, on a map that clear() may have been called on.
Next ==
    \/ \E k \in Keys, t \in Types : \E v \in OneVal(t) :
           Fits(k, t, MaxData) /\ Insert(k, t, v)
    \/ \E k \in Keys, t \in Types : Remove(k, t)
    \/ \E k \in Keys, t \in Types : Get(k, t)
    \/ \E k \in Keys, t \in Types : GetMut(k, t)
    \/ \E k \in Keys : ContainsKey(k)
    \/ \E k \in Keys, t \in Types : ContainsKeyOf(k, t)
    \/ Clear
    \/ DropMap

\* The operations other than clear() and drop.
NextNoClear ==
    \/ \E k \in Keys, t \in NoClearTypes : \E v \in Vals(t) :
           Fits(k, t, MaxData) /\ Insert(k, t, v)
    \/ \E k \in Keys, t \in NoClearTypes : Remove(k, t)
    \/ \E k \in Keys, t \in NoClearTypes : Get(k, t)
    \/ \E k \in Keys, t \in NoClearTypes : GetMut(k, t)
    \/ \E k \in Keys : ContainsKey(k)
    \/ \E k \in Keys, t \in NoClearTypes : ContainsKeyOf(k, t)

\* Inserts and reads only: the layouts a fresh map is packed into.
NextPack ==
    \/ \E k \in PackKeys, t \in PackTypes : \E v \in Vals(t) :
           Fits(k, t, MaxData) /\ Insert(k, t, v)
    \/ \E k \in PackKeys, t \in PackTypes : Get(k, t)

\* The life of a map that holds values with a destructor.
NextDrop ==
    \/ \E k \in Keys, t \in DropTypes : \E v \in Vals(t) :
           Fits(k, t, MaxDropData) /\ Insert(k, t, v)
    \/ \E k \in Keys, t \in DropTypes : Remove(k, t)
    \/ \E k \in Keys, t \in DropTypes : Get(k, t)
    \/ Clear
    \/ DropMap

\* The reserve_* calls the specification makes: those that ask for at most
\* `max` elements in all.
Asks(n, additional, max) == n + additional <= max

\* Every operation, the ones on the buffers' capacity included, on two keys.
NextCap ==
    \/ \E k \in CapKeys, t \in CapTypes : \E v \in OneVal(t) :
           Fits(k, t, MaxData) /\ Insert(k, t, v)
    \/ \E k \in CapKeys, t \in CapTypes : Remove(k, t)
    \/ \E k \in CapKeys, t \in CapTypes : Get(k, t)
    \/ \E k \in CapKeys, t \in CapTypes : GetMut(k, t)
    \/ \E k \in CapKeys : ContainsKey(k)
    \/ \E k \in CapKeys, t \in CapTypes : ContainsKeyOf(k, t)
    \/ CallKeys
    \/ CallLen
    \/ CallDataSize
    \/ ShrinkDataToFit
    \/ \E n \in Additional : Asks(Len(data), n, MaxCapacity) /\ ReserveData(n)
    \/ \E n \in Additional : Asks(Len(data), n, MaxCapacity) /\ ReserveDataExact(n)
    \/ \E n \in Additional : Asks(Len(fields), n, MaxCapacity) /\ ReserveFields(n)
    \/ \E n \in Additional : Asks(Len(fields), n, MaxCapacity) /\ ReserveFieldsExact(n)
    \/ Clear
    \/ DropMap

Spec == Init /\ [][Next]_vars

SpecCap == Init /\ [][NextCap]_vars

SpecNoClear == Init /\ [][NextNoClear]_vars

SpecPack == Init /\ [][NextPack]_vars

SpecDrop == Init /\ [][NextDrop]_vars

\* ---------------------------------------------------------------- claims
KeyOffsets == {field_map[k] : k \in DOMAIN field_map}

TableOffsets == {fields[i].offset : i \in 1..Len(fields)}

\* C1: after any sequence of insert and remove calls, the offsets in the Key
\* Index are exactly the offsets in the Field Table, distinct keys have
\* distinct offsets, and len() is the cardinality of both sets.
C1_IndexTableBijection ==
    /\ KeyOffsets = TableOffsets
    /\ \A k1, k2 \in DOMAIN field_map : k1 # k2 => field_map[k1] # field_map[k2]
    /\ len = Cardinality(KeyOffsets)
    /\ len = Cardinality(TableOffsets)

\* Two keys are left after a remove that vacated the front of the buffer.
C1_Witness ==
    /\ len = 2
    /\ Cardinality(DOMAIN field_map) = 2
    /\ fields[1].offset > 0

\* C2: right after clear(), len() is 0, contains_key(k) is false for every
\* key, and the Key Index offsets equal the Field Table offsets.
C2_ClearEmptiesBoth ==
    [][Clear => /\ Len(fields') = 0
                /\ \A k \in Keys : k \notin DOMAIN field_map'
                /\ {field_map'[k] : k \in DOMAIN field_map'}
                       = {fields'[i].offset : i \in 1..Len(fields')}]_vars

Overlap(f, g) == f.offset < g.offset + g.size /\ g.offset < f.offset + f.size

\* C3: no two live fields' byte ranges [offset, offset + size) overlap, after
\* any sequence of inserts, replaces, removes and clears.
C3_NoOverlap ==
    \A i, j \in 1..Len(fields) : i # j => ~Overlap(fields[i], fields[j])

\* Three fields of two sizes are live, one of them placed in a gap before
\* the last.
C3_Witness ==
    /\ len = 3
    /\ \E i, j \in 1..3 : fields[i].size # fields[j].size
    /\ fields[3].offset > fields[2].offset + fields[2].size

\* C4: the only fault is the type mismatch on an existing key: no call
\* fails an internal lookup, and on a key the caller has no value under,
\* get, get_mut and remove return None and insert returns None.
C4_OnlyMismatchFaults ==
    alive =>
        \A k \in Keys, t \in Types :
            /\ get_ret(k, t) # PanicUnwrap
            /\ remove_ret(k, t) # PanicUnwrap
            /\ insert_ret(k, t) # PanicUnwrap
            /\ contains_key_of_ret(k, t) # PanicUnwrap
            /\ k \notin DOMAIN ref =>
                   /\ get_ret(k, t) = None
                   /\ remove_ret(k, t) = None
                   /\ insert_ret(k, t) = None

\* C5: for a key inserted as type T and still present, get, get_mut, remove
\* and insert with another type raise the type-mismatch fault, and with T
\* they succeed on the stored value.
C5_TypeCheck ==
    alive =>
        \A k \in DOMAIN ref, t \in Types :
            IF t = ref[k].ty
                THEN /\ get_ret(k, t) = Some(ref[k].val)
                     /\ remove_ret(k, t) = Some(ref[k].val)
                     /\ insert_ret(k, t) = Some(ref[k].val)
                ELSE /\ get_ret(k, t) = PanicMismatch
                     /\ remove_ret(k, t) = PanicMismatch
                     /\ insert_ret(k, t) = PanicMismatch

\* C6: a call of insert, remove, get or get_mut that raises the
\* type-mismatch fault leaves the Field Table, the Key Index and the data
\* buffer (its length and every byte, so every key's stored value) as they
\* were: a step that changes any of them is no such call.
C6_FaultLeavesState ==
    [][\/ UNCHANGED <<data, field_map, fields>>
       \/ \A k \in Keys, t \in Types :
              /\ ~(insert_ret(k, t) = PanicMismatch /\ \E v \in OneVal(t) : Insert(k, t, v))
              /\ ~(remove_ret(k, t) = PanicMismatch /\ Remove(k, t))
              /\ ~(get_ret(k, t) = PanicMismatch /\ (Get(k, t) \/ GetMut(k, t)))]_vars

\* Two keys are present and a call with the wrong type is at hand.
C6_Witness ==
    /\ alive
    /\ len = 2
    /\ \E k \in Keys, t \in Types :
           /\ remove_ret(k, t) = PanicMismatch
           /\ insert_ret(k, t) = PanicMismatch
           /\ get_ret(k, t) = PanicMismatch

\* C7: under insert, get and remove the map is a reference key -> value map
\* (ref: insert sets the key's value, remove deletes the key): get(k) is the
\* value last inserted for k and None when k has none, insert returns the
\* previous value (None for an absent key), remove returns the value.
C7_ReferenceMap ==
    \A k \in Keys :
        IF k \in DOMAIN ref
            THEN /\ get_ret(k, ref[k].ty) = Some(ref[k].val)
                 /\ insert_ret(k, ref[k].ty) = Some(ref[k].val)
                 /\ remove_ret(k, ref[k].ty) = Some(ref[k].val)
            ELSE \A t \in NoClearTypes :
                     /\ get_ret(k, t) = None
                     /\ insert_ret(k, t) = None
                     /\ remove_ret(k, t) = None

\* A replaced value is held beside another key's value, behind a vacated
\* region.
C7_Witness ==
    /\ Cardinality(DOMAIN ref) = 2
    /\ \E k \in DOMAIN ref : ref[k] = Entry("u8", 2)
    /\ \E k \in DOMAIN ref : ref[k].ty = "u16"
    /\ fields[1].offset > 0

\* the number of live fields whose dropper would be called on Dropper value v
LiveCount(v) ==
    Cardinality({i \in 1..Len(fields) :
                    /\ fields[i].drop # "None"
                    /\ ReadAt(data, fields[i].offset, fields[i].drop) = v})

\* C8: every value with a destructor that was stored is, at any time, either
\* still in the map and not cleaned up, or handed back to the caller (by
\* remove or a replacing insert) and never cleaned up by the map, or cleaned
\* up exactly once by clear() or the teardown; after the teardown none is
\* left in the map.
C8_CleanupOnce ==
    /\ DOMAIN cleanups = 1..made
    /\ handed \subseteq 1..made
    /\ \A v \in 1..made :
           (IF v \in handed THEN 1 ELSE 0) + cleanups[v] + LiveCount(v) = 1
    /\ ~alive => \A v \in 1..made : v \notin handed => cleanups[v] = 1

\* The map was torn down after values were cleaned up and one was handed back.
C8_Witness ==
    /\ ~alive
    /\ handed # {}
    /\ Cardinality({v \in 1..made : cleanups[v] = 1}) >= 2

\* (offset, size) of the fields, in table order
Layout == [i \in 1..Len(fields) |-> <<fields[i].offset, fields[i].size>>]

\* An insert under a new key of a value of (size, alignment) into a map laid
\* out as `pre`, with `presize` bytes of data, places it at `off`, leaves
\* `postsize` bytes of data, and the value is read back at `off`.
PackStep(pre, presize, size, alignment, off, postsize) ==
    \/ Layout # pre
    \/ data_size # presize
    \/ \A k \in PackKeys, t \in PackTypes : \A v \in Vals(t) :
           (/\ alloc_size(t) = size
            /\ alloc_alignment(t) = alignment
            /\ insert_ret(k, t) = None
            /\ Insert(k, t, v))
               => /\ field_map'[k] = off
                  /\ Len(data') = postsize
                  /\ ReadAt(data', off, t) = v

\* every value the caller has stored is read back by get
Readable == \A k \in DOMAIN ref : get_ret(k, ref[k].ty) = Some(ref[k].val)

\* C9: from an empty map, values of (size, alignment) (1,1), (2,2), (1,1)
\* go to offsets 0, 2, 1 and leave data_size() = 4; (2,2), (4,4), (1,1),
\* (1,1) go to offsets 0, 4, 2, 3 and leave data_size() = 8; every value is
\* readable by get afterwards.
C9_Packing ==
    /\ []Readable
    /\ [][/\ PackStep(<<>>, 0, 1, 1, 0, 1)
          /\ PackStep(<<<<0, 1>>>>, 1, 2, 2, 2, 4)
          /\ PackStep(<<<<0, 1>>, <<2, 2>>>>, 4, 1, 1, 1, 4)
          /\ PackStep(<<>>, 0, 2, 2, 0, 2)
          /\ PackStep(<<<<0, 2>>>>, 2, 4, 4, 4, 8)
          /\ PackStep(<<<<0, 2>>, <<4, 4>>>>, 8, 1, 1, 2, 8)
          /\ PackStep(<<<<0, 2>>, <<2, 1>>, <<4, 4>>>>, 8, 1, 1, 3, 8)]_vars

\* The second packing is complete: u16, u8, u8, u32 in 8 bytes.
C9_Witness ==
    /\ Layout = <<<<0, 2>>, <<2, 1>>, <<3, 1>>, <<4, 4>>>>
    /\ data_size = 8
    /\ fields[1].id = "u16"
    /\ fields[4].id = "u32"

\* C10: when a key holding a T was removed and a new key is inserted next
\* with a T, the insert does not grow the data buffer, the new value is at an
\* offset no greater than the vacated one, and it is read back there (u32 a,
\* u32 b, remove a, insert u32 c: c is at offset 0, data_size() stays 8).
C10_ReuseFreed ==
    [][\/ vacated.tag = "None"
       \/ \A k \in Keys, t \in Types : \A v \in OneVal(t) :
              (/\ vacated.ty = t
               /\ insert_ret(k, t) = None
               /\ Insert(k, t, v))
                  => /\ Len(data') = Len(data)
                     /\ field_map'[k] <= vacated.offset
                     /\ ReadAt(data', field_map'[k], t) = v]_vars

\* The u32 at offset 0 was removed, the u32 at offset 4 is left in 8 bytes of
\* data, and the next insert is at hand.
C10_Witness ==
    /\ alive
    /\ vacated = Region("u32", 0)
    /\ Layout = <<<<4, 4>>>>
    /\ fields[1].id = "u32"
    /\ data_size = 8
    /\ Cardinality(DOMAIN field_map) = 1

\* C11: zero-sized values are allocated as size 1, alignment 1: n keys
\* inserted with the zero-sized type A into an empty map are at the n
\* distinct offsets 0..n-1 and the data buffer is exactly n bytes long.
C11_ZeroSize ==
    (\A i \in 1..Len(fields) : fields[i].id = TypeId("A"))
        => /\ Layout = [i \in 1..len |-> <<i - 1, 1>>]
           /\ data_size = len
           /\ KeyOffsets = 0..(len - 1)
           /\ \A k1, k2 \in DOMAIN field_map : k1 # k2 => field_map[k1] # field_map[k2]

\* Three keys hold a zero-sized value, in three bytes.
C11_Witness ==
    /\ len = 3
    /\ \A i \in 1..3 : fields[i].id = TypeId("A")
    /\ Cardinality(DOMAIN ref) = 3
    /\ Cardinality(KeyOffsets) = 3
    /\ data_size = 3

\* C12: contains_key_of::<T>(k) is true exactly when k has a stored value
\* and its recorded type is T, and false, with no fault, when k has none or
\* one of another type; contains_key(k) is true exactly when k has a stored
\* value.
C12_Contains ==
    alive =>
        \A k \in Keys, t \in Types :
            /\ contains_key_of_ret(k, t) = Bool(k \in DOMAIN ref /\ ref[k].ty = t)
            /\ contains_key(k) = (k \in DOMAIN ref)

\* C13: keys() yields each key that has a stored value exactly once and no
\* other key, so the number of keys yielded is len().
C13_KeysAreStored ==
    alive =>
        /\ keys = DOMAIN ref
        /\ Cardinality(keys) = len

\* a region of `size` bytes at offset o overlaps no field of fs
Free(fs, o, size) ==
    \A i \in 1..Len(fs) : o + size <= fs[i].offset \/ fs[i].offset + fs[i].size <= o

\* the smallest multiple of the alignment at which the region is free
SmallestFree(fs, size, alignment) ==
    CHOOSE o \in 0..(fields_end(fs) + alignment) :
        /\ o % alignment = 0
        /\ Free(fs, o, size)
        /\ \A q \in 0..(o - 1) : ~(q % alignment = 0 /\ Free(fs, q, size))

\* x rounded up to the next multiple of a
align_up(x, a) == ((x + a - 1) \div a) * a

\* the placement rule: offset 0, else the first adjacent pair with room
\* between, else after the last field
FirstFit(fs, size, alignment) ==
    IF fs = <<>> \/ size <= fs[1].offset
        THEN 0
        ELSE LET Gaps == {i \in 1..(Len(fs) - 1) :
                             align_up(fs[i].offset + fs[i].size, alignment) + size
                                 <= fs[i + 1].offset}
             IN  IF Gaps # {}
                     THEN LET i == CHOOSE g \in Gaps : \A h \in Gaps : g <= h
                          IN  align_up(fs[i].offset + fs[i].size, alignment)
                     ELSE align_up(fs[Len(fs)].offset + fs[Len(fs)].size, alignment)

\* C14: first-fit placement: for every Field Table and every requested
\* (size, alignment) the offset allocate chooses is 0 if the table is empty
\* or the size fits before the first field, else the aligned end of the
\* first field with room before its successor, else the aligned end of the
\* last field; that is the smallest multiple of the alignment at which the
\* region overlaps no live field.
C14_FirstFit ==
    \A t \in Types :
        LET o == place(fields, alloc_size(t), alloc_alignment(t)).offset
        IN  /\ o = FirstFit(fields, alloc_size(t), alloc_alignment(t))
            /\ o = SmallestFree(fields, alloc_size(t), alloc_alignment(t))

\* One byte is free before the first field, which is too little for a u16,
\* and the u16 goes between the two fields.
C14_Witness ==
    /\ alive
    /\ Layout = <<<<1, 1>>, <<4, 4>>>>
    /\ place(fields, alloc_size("u16"), alloc_alignment("u16")) = [offset |-> 2, index |-> 1]
    /\ place(fields, alloc_size("u8"), alloc_alignment("u8")) = [offset |-> 0, index |-> 0]
    /\ place(fields, alloc_size("u32"), alloc_alignment("u32")) = [offset |-> 8, index |-> 2]

\* C15: the Field Table is sorted strictly ascending by offset (so offsets
\* are unique): every new field is inserted at the position that keeps the
\* order.
C15_Sorted ==
    \A i \in 1..(Len(fields) - 1) : fields[i].offset < fields[i + 1].offset

\* Three fields are in the table in a buffer that has held a value since
\* removed (its byte at offset 1 is left behind).
C15_Witness ==
    /\ len = 3
    /\ Layout = <<<<0, 1>>, <<2, 2>>, <<4, 4>>>>
    /\ data[2] # 0

\* C16: an insert of a new key, a replacing insert or a remove leaves the
\* offset, size and type of every other key's field as they were, and
\* shrink_data_to_fit and reserve_* (as every call that changes neither the
\* Key Index nor the Field Table) leave the offsets and the data length as
\* they were.
C16_OthersStay ==
    [][/\ (field_map' = field_map /\ fields' = fields /\ ref' = ref)
              => Len(data') = Len(data)
       /\ \/ UNCHANGED <<field_map, fields>>
          \/ \A k \in DOMAIN ref \cap DOMAIN ref' :
                 /\ k \in DOMAIN field_map'
                 /\ field_map'[k] = field_map[k]
                 /\ \E i \in 1..Len(fields), j \in 1..Len(fields') :
                        /\ fields[i].offset = field_map[k]
                        /\ fields'[j] = fields[i]]_vars

\* C17: the data buffer is at least as long as the end of every live field
\* (so of the highest-offset one), and an insert of a new key placed at
\* offset o with size s leaves it max(old length, o + s) bytes long.
C17_DataCovers ==
    /\ [](\A i \in 1..Len(fields) : data_size >= fields[i].offset + fields[i].size)
    /\ [][\/ Len(fields') <= Len(fields)
          \/ \A j \in 1..Len(fields') :
                 (\A i \in 1..Len(fields) : fields[i] # fields'[j])
                     => Len(data') = Max(Len(data), fields'[j].offset + fields'[j].size)]_vars

\* A one-byte field is at the front of a buffer of 8 bytes, beside a byte of
\* a value since removed; the last 4 bytes hold another field.
C17_Witness ==
    /\ Layout = <<<<0, 1>>, <<4, 4>>>>
    /\ data_size = 8
    /\ data[2] # 0

\* C18: data_size() never decreases: a step that adds no field (remove,
\* clear, a replacing insert, get, get_mut, shrink_data_to_fit, reserve_*)
\* leaves the data length as it was, and an insert of a new key leaves it or
\* increases it.
C18_NeverShrinks ==
    [][/\ Len(data') >= Len(data)
       /\ Len(fields') <= Len(fields) => Len(data') = Len(data)]_vars

\* shrink_data_to_fit was called on a buffer longer than its last field's end.
C18_Witness ==
    /\ alive
    /\ data_size > fields_end(fields)
    /\ data_capacity = data_size
    /\ len = 1

\* C19: each live field's offset is a multiple of the alignment of the type
\* it was inserted with (1 for a zero-sized type), and align(x, a) is the
\* smallest multiple of a that is >= x.
C19_Aligned ==
    /\ \A i \in 1..Len(fields) :
           fields[i].offset
               % (IF size_of(fields[i].id) = 0 THEN 1 ELSE align_of(fields[i].id)) = 0
    /\ \A x \in 0..(2 * MaxData), a \in {1, 2, 4, 8} :
           /\ align(x, a) % a = 0
           /\ align(x, a) >= x
           /\ align(x, a) < x + a

\* A u32 is at offset 4, behind a u8 and a zero-sized value and two bytes of
\* padding.
C19_Witness ==
    /\ len = 3
    /\ fields[1].id = "u8"
    /\ fields[2].id = "A"
    /\ fields[3].id = "u32"
    /\ fields[3].offset = 4

====
